---- MODULE Spec2Model ----
(***************************************************************************)
(* A model of Mondash (src/mondash/app.py, src/mondash/utils.py): the      *)
(* per-user ledger cache filled by the dashboard handler `base`, the       *)
(* invalidating handlers `clear` and `logout`, and the aggregation /       *)
(* duplicate-matching loop that `base` runs over the cached item list.     *)
(*                                                                         *)
(* Five specifications share the module:                                   *)
(*   SpecAgg   the loop of app.py lines 115-153 over every bounded item    *)
(*             list, one iteration per step;                               *)
(*   Spec      the handlers, one request at a time, against an upstream    *)
(*             whose accounts and transactions change between the awaits;  *)
(*   SpecAuth  a guarded request and a callback that overlap while the     *)
(*             clock runs and upstream may refuse or fail any call;        *)
(*   SpecIso   two users, each with a request of their own, interleaved    *)
(*             at the awaits;                                              *)
(*   SpecRace  two requests of one user, interleaved at the awaits.        *)
(***************************************************************************)
EXTENDS Integers, Sequences, FiniteSets, TLC

VARIABLES
    \* ---- the aggregation loop (SpecAgg) ----
    aItems,      \* `items`, the list the loop of line 121 runs over
    aIdx,        \* number of items the loop has consumed
    acc,         \* inbounds, outbounds, categories, merchants, matches, dupes
    pairs,       \* history: <<popped id, current id>> of every match made
    aRet,        \* the dictionary returned at lines 144-153, None before
    \* ---- the handlers (Spec) ----
    upItems,     \* upstream: the transactions of each user
    upAccounts,  \* upstream: the account list of each user
    cache,       \* app.py line 27: user -> entry, absent users not in DOMAIN
    heap,        \* the Python list objects that `items` names refer to
    sess,        \* the session cookie each user's browser holds
    req,         \* the requests: the position and the locals of each
    returned,    \* history: ids upstream returned to this user's fetches
    now,         \* datetime.now().timestamp()
    opened       \* the number of dashboard requests the client has sent

aggVars == <<aItems, aIdx, acc, pairs, aRet>>
appVars == <<upItems, upAccounts, cache, heap, sess, req, returned, now,
            opened>>
vars == <<aItems, aIdx, acc, pairs, aRet,
          upItems, upAccounts, cache, heap, sess, req, returned, now, opened>>

(***************************************************************************)
(* Bounds of the model.                                                    *)
(***************************************************************************)
\* longest item list whose fields range over the whole item domain
MaxWide == 2
\* longest item list over the narrow domain (one name, amounts +-1)
MaxNarrow == 4
\* largest value of the date prefix of a created timestamp
MaxDate == 2
\* number of transactions upstream ever records for a user
MaxTxn == 2
\* the last reading of the clock
MaxNow == 1
\* data["expires_in"] of the token upstream grants
ExpiresIn == 0
\* number of values rand_str draws the state of start_auth from
MaxState == 2
\* number of dashboard requests the client sends where they are counted
MaxOpen == 3

(***************************************************************************)
(* Python values.  None is the empty tuple and a present optional value v  *)
(* is the one-element tuple <<v>>, so the two never compare equal.         *)
(***************************************************************************)
None == <<>>

Some(v) == <<v>>

\* Python truthiness of an optional string: None and "" are false.
Truthy(o) == o # None /\ o[1] # ""

\* d[k] += v on a defaultdict(int): an absent key starts at 0.
DictAdd(d, k, v) ==
    IF k \in DOMAIN d THEN [d EXCEPT ![k] = @ + v] ELSE d @@ (k :> v)

\* d[k1][k2] += v on a defaultdict(lambda: defaultdict(int)).
DictAdd2(d, k1, k2, v) ==
    IF k1 \in DOMAIN d
    THEN [d EXCEPT ![k1] = DictAdd(@, k2, v)]
    ELSE d @@ (k1 :> (k2 :> v))

\* d.pop(k) for a key that is present: the dictionary without k.
DictDel(d, k) == [x \in DOMAIN d \ {k} |-> d[x]]

\* d[k] = v on a plain dict: an existing key is overwritten.
DictPut(d, k, v) == [x \in DOMAIN d \cup {k} |-> IF x = k THEN v ELSE d[x]]

EmptyDict == [x \in {} |-> 0]

(***************************************************************************)
(* Timestamps.  `created` is the string upstream sent, in one of the two   *)
(* forms date_format accepts: "<date>Z" when the fraction is zero          *)
(* (frac = 0) and "<date>.<fff>Z" otherwise (frac > 0).  <date> is the     *)
(* fixed-width "%Y-%m-%dT%H:%M:%S" prefix, numbered in time order.         *)
(***************************************************************************)
\* fractions of a second that upstream uses besides zero
MaxFrac == 1

DatesPerMonth == 2

Created == [date : 0..MaxDate, frac : 0..MaxFrac]

\* The instant a created string denotes.
Instant(c) == c.date * (MaxFrac + 1) + c.frac

\* Python's order on the created strings: the date prefixes compare as the
\* dates do; after equal prefixes "." (0x2E) sorts before "Z" (0x5A), so
\* every fractional form precedes the form without a fraction.
StrKey(c) == c.date * (MaxFrac + 1) + (IF c.frac = 0 THEN MaxFrac ELSE c.frac - 1)

\* date_format(timestamp, "%Y-%m"): either form parses, the month is that
\* of the date prefix.
date_format(c) == c.date \div DatesPerMonth

(***************************************************************************)
(* Transaction items.  Only the fields app.py reads are kept; `merchant`   *)
(* and `counterparty` stand for item[...]["name"] of the expanded object   *)
(* and are None when upstream sent none.                                   *)
(***************************************************************************)
Item(i, acct, c, amt, m, cp, dr, load, cat) ==
    [id |-> i, account |-> acct, created |-> c, amount |-> amt,
     merchant |-> m, counterparty |-> cp, decline_reason |-> dr,
     is_load |-> load, category |-> cat]

\* The item domain of the aggregation loop, for identifier i: every
\* combination of the fields the loop reads, on the first and the last date.
\* It reads nothing but the amount and the decline reason of an item it
\* skips (line 122), so those items vary only in the fields a faulty loop
\* could match them on.  The last two sets are the items whose merchant or
\* counterparty is present with the empty string for a name.
WideItems(i) ==
    { Item(i, "acc1", [date |-> d, frac |-> 0], amt, m, cp, None, load, cat) :
        d \in {0, MaxDate}, amt \in {-1, 1},
        m \in {None, Some("M")}, cp \in {None, Some("N")},
        load \in BOOLEAN, cat \in {"general", "eating_out"} }
    \cup
    { Item(i, "acc1", [date |-> d, frac |-> 0], amt, m, cp, dr, FALSE, "general") :
        d \in {0, MaxDate}, amt \in {-1, 0, 1},
        m \in {None, Some("M")}, cp \in {None, Some("N")},
        dr \in {None, Some("INSUFFICIENT_FUNDS")} }
    \cup
    { Item(i, "acc1", [date |-> 0, frac |-> 0], amt, Some(""), cp, None, load,
           "general") :
        amt \in {-1, 1}, cp \in {None, Some("N")}, load \in BOOLEAN }
    \cup
    { Item(i, "acc1", [date |-> 0, frac |-> 0], 1, None, Some(""), None, load,
           "general") :
        load \in BOOLEAN }

\* Undeclined items of the first two dates, named M or N, of amount -1, 1
\* or 2: the domain of the longer lists.
NarrowItems(i) ==
    { Item(i, "acc1", [date |-> d, frac |-> 0], amt, Some(n), None, None,
           FALSE, "general") :
        d \in {0, 1}, amt \in {-1, 1, 2}, n \in {"M", "N"} }

\* The list f with its k-th item given the identifier k.
Numbered(f) == [k \in DOMAIN f |-> [f[k] EXCEPT !.id = k]]

\* line 111 leaves the list in the order of its created strings
IsStrSorted(l) ==
    \A i \in 1..(Len(l) - 1) : StrKey(l[i].created) <= StrKey(l[i + 1].created)

(***************************************************************************)
(* app.py lines 115-143: the loop body, applied to the accumulators.       *)
(***************************************************************************)
\* lines 115-120
AggInit ==
    [inbounds |-> EmptyDict, outbounds |-> EmptyDict,
     categories |-> EmptyDict, merchants |-> EmptyDict,
     matches |-> EmptyDict, dupes |-> {}]

\* line 122 with the decline reason left unread
SkippedNoDecline(item) == item.amount = 0

\* line 122 with the zero amount left unread
SkippedNoZero(item) == Truthy(item.decline_reason)

\* line 122: the items the loop skips
Skipped(item) == item.amount = 0 \/ Truthy(item.decline_reason)

\* lines 125-129: the name the matcher keys on
MerchantOf(item) ==
    IF item.merchant # None THEN item.merchant
    ELSE IF item.counterparty # None THEN item.counterparty
    ELSE None

\* lines 140-143 with "Top-up" chosen whenever is_load is set
BucketOfLoadFirst(item) ==
    IF item.is_load THEN "Top-up"
    ELSE IF Truthy(MerchantOf(item)) THEN MerchantOf(item)[1] ELSE ""

\* lines 140-143: the key of merchants[month]
BucketOf(item) ==
    LET merchant == IF ~Truthy(MerchantOf(item)) /\ item.is_load
                    THEN Some("Top-up") ELSE MerchantOf(item)
    IN  IF Truthy(merchant) THEN merchant[1] ELSE ""

\* line 135
Matched(st, item) == <<MerchantOf(item), -item.amount>> \in DOMAIN st.matches

\* lines 136-137 adding the current identifier only
DupesAfterCurrentOnly(st, item) ==
    IF Matched(st, item) THEN st.dupes \cup {item.id} ELSE st.dupes

\* lines 135-137: the duplicate set after the item
DupesAfter(st, item) ==
    IF Matched(st, item)
    THEN st.dupes \cup {item.id, st.matches[<<MerchantOf(item), -item.amount>>]}
    ELSE st.dupes

\* lines 135-139 reading the matched entry without popping it
MatchesAfterNoPop(st, item) ==
    IF Matched(st, item) THEN st.matches
    ELSE DictPut(st.matches, <<MerchantOf(item), item.amount>>, item.id)

\* lines 135-139 keeping the first pending identifier of a key
MatchesAfterKeepFirst(st, item) ==
    IF Matched(st, item)
    THEN DictDel(st.matches, <<MerchantOf(item), -item.amount>>)
    ELSE IF <<MerchantOf(item), item.amount>> \in DOMAIN st.matches
         THEN st.matches
         ELSE DictPut(st.matches, <<MerchantOf(item), item.amount>>, item.id)

\* lines 135-139: the pending map after the item
MatchesAfter(st, item) ==
    IF Matched(st, item)
    THEN DictDel(st.matches, <<MerchantOf(item), -item.amount>>)
    ELSE DictPut(st.matches, <<MerchantOf(item), item.amount>>, item.id)

\* lines 122-143 with a matched item left out of the four totals
AggStepSkipDupes(st, item) ==
    IF Skipped(item) THEN st
    ELSE IF Matched(st, item)
    THEN [st EXCEPT !.dupes = DupesAfter(st, item),
                    !.matches = MatchesAfter(st, item)]
    ELSE
    LET month == date_format(item.created)
        amount == item.amount
    IN  [inbounds |-> IF amount > 0 THEN DictAdd(st.inbounds, month, amount)
                      ELSE st.inbounds,
         outbounds |-> IF amount > 0 THEN st.outbounds
                       ELSE DictAdd(st.outbounds, month, amount),
         dupes |-> DupesAfter(st, item),
         matches |-> MatchesAfter(st, item),
         categories |-> DictAdd2(st.categories, month, item.category, amount),
         merchants |-> DictAdd2(st.merchants, month, BucketOf(item), amount)]

\* lines 122-143: one iteration of the loop
AggStep(st, item) ==
    IF Skipped(item) THEN st
    ELSE
    LET month == date_format(item.created)
        amount == item.amount
    IN  [inbounds |-> IF amount > 0 THEN DictAdd(st.inbounds, month, amount)
                      ELSE st.inbounds,
         outbounds |-> IF amount > 0 THEN st.outbounds
                       ELSE DictAdd(st.outbounds, month, amount),
         dupes |-> DupesAfter(st, item),
         matches |-> MatchesAfter(st, item),
         categories |-> DictAdd2(st.categories, month, item.category, amount),
         merchants |-> DictAdd2(st.merchants, month, BucketOf(item), amount)]

\* lines 121-143: the loop over a whole list
RECURSIVE AggPass(_, _)
AggPass(st, items) ==
    IF items = <<>> THEN st ELSE AggPass(AggStep(st, Head(items)), Tail(items))

\* lines 144-153: what the handler returns (the fields the model keeps)
ViewOf(accounts, pots, items, st) ==
    [accounts |-> accounts, pots |-> pots, items |-> items,
     inbounds |-> st.inbounds, outbounds |-> st.outbounds,
     categories |-> st.categories, merchants |-> st.merchants,
     dupes |-> st.dupes]

(***************************************************************************)
(* SpecAgg: the loop, one iteration per step, over every bounded list.     *)
(***************************************************************************)
WideInput(l) ==
    \E n \in 0..MaxWide : \E f \in [1..n -> WideItems(0)] :
        l = Numbered(f) /\ IsStrSorted(l)

NarrowInput(l) ==
    \E n \in (MaxWide + 1)..MaxNarrow : \E f \in [1..n -> NarrowItems(0)] :
        l = Numbered(f) /\ IsStrSorted(l)

\* One iteration of the loop of line 121.
LoopStep ==
    /\ aRet = None
    /\ aIdx < Len(aItems)
    /\ LET item == aItems[aIdx + 1] IN
        /\ acc' = AggStep(acc, item)
        /\ pairs' = IF ~Skipped(item) /\ Matched(acc, item)
                    THEN pairs \cup
                         {<<acc.matches[<<MerchantOf(item), -item.amount>>], item.id>>}
                    ELSE pairs
    /\ aIdx' = aIdx + 1
    /\ UNCHANGED <<aItems, aRet>>
    /\ UNCHANGED appVars

\* The loop is exhausted: lines 144-153.
LoopReturn ==
    /\ aRet = None
    /\ aIdx = Len(aItems)
    /\ aRet' = Some(ViewOf(<<>>, <<>>, aItems, acc))
    /\ UNCHANGED <<aItems, aIdx, acc, pairs>>
    /\ UNCHANGED appVars

(***************************************************************************)
(* The handlers' state.                                                    *)
(***************************************************************************)
Users == {"u1", "u2"}

Reqs == {"r1", "r2"}

\* the list objects alive at once: one per cache entry, one per request
ObjIds == 1..(Cardinality(Users) + Cardinality(Reqs))

\* upstream's accounts when the model starts
Accounts0 == << [id |-> "acc1", closed |-> FALSE],
                [id |-> "acc2", closed |-> FALSE] >>

\* the upstream operations a handler awaits
Ops == {"auth", "user", "accounts", "balance", "transactions"}

\* a session without a token, before start_auth has stored a state
NoSession == [token |-> FALSE, expires |-> None, state |-> None]

\* a session after callback (lines 69-70) at time 0
LoggedIn == [token |-> TRUE, expires |-> Some(ExpiresIn), state |-> Some(1)]

\* a request not yet sent; `sess` is the session object of the request
\* (utils.py line 148)
IdleReq ==
    [pc |-> "idle", kind |-> "none", user |-> "", sess |-> NoSession,
     accounts |-> <<>>,
     pots |-> <<>>, ref |-> 0, since |-> None, inbox |-> None,
     part |-> EmptyDict, fault |-> "", calls |-> [op \in Ops |-> 0],
     cached95 |-> FALSE, cached106 |-> FALSE, upAtBegin |-> <<>>,
     entry0 |-> None, had |-> {}, lost |-> {}, state |-> None,
     outcome |-> "", view |-> None]

\* app.py line 27, a fresh upstream, sessions s and the clock at 0
AppStart(s) ==
    /\ upItems = [u \in Users |-> {}]
    /\ upAccounts = [u \in Users |-> Accounts0]
    /\ cache = EmptyDict
    /\ heap = [o \in ObjIds |-> <<>>]
    /\ sess = s
    /\ req = [r \in Reqs |-> IdleReq]
    /\ returned = [u \in Users |-> {}]
    /\ now = 0
    /\ opened = 0

\* app.py line 27 and a fresh upstream
AppInit == AppStart([u \in Users |-> NoSession])

(***************************************************************************)
(* Upstream (the banking API), as far as the handlers depend on it.        *)
(***************************************************************************)
\* the created strings of the transactions upstream records: two dates,
\* each without a fraction and with one
FeedCreated == [date : {0, 1}, frac : {0, MaxFrac}]

\* the transactions upstream may record, for identifier i: credits and
\* debits of one merchant in turn, on either account
FeedItems(i) ==
    { Item(i, a, c, IF i % 2 = 1 THEN 1 ELSE -1, Some("M"), None, None,
           FALSE, "general") :
        a \in {"acc1", "acc2"}, c \in FeedCreated }

\* the same on account acc1 with created strings of the form without a
\* fraction only
PlainItems(i) ==
    { x \in FeedItems(i) : x.account = "acc1" /\ x.created.frac = 0 }

AllUpItems == UNION { upItems[u] : u \in Users }

\* Upstream records a transaction of user u, one of PlainItems if `plain`.
UpstreamRecord(u, plain) ==
    /\ Cardinality(upItems[u]) < MaxTxn
    /\ \E x \in IF plain THEN PlainItems(Cardinality(AllUpItems) + 1)
                        ELSE FeedItems(Cardinality(AllUpItems) + 1) :
        upItems' = [upItems EXCEPT ![u] = @ \cup {x}]
    /\ UNCHANGED <<upAccounts, cache, heap, sess, req, returned, now, opened>>
    /\ UNCHANGED aggVars

\* Upstream closes an account of user u.
UpstreamClose(u) ==
    /\ \E i \in DOMAIN upAccounts[u] :
        /\ ~upAccounts[u][i].closed
        /\ upAccounts' = [upAccounts EXCEPT ![u][i].closed = TRUE]
    /\ UNCHANGED <<upItems, cache, heap, sess, req, returned, now, opened>>
    /\ UNCHANGED aggVars

\* The set S of items as a list in upstream's order: by instant, then by
\* identifier.
RECURSIVE InTimeOrder(_)
InTimeOrder(S) ==
    IF S = {} THEN <<>>
    ELSE LET x == CHOOSE y \in S : \A z \in S :
                    \/ Instant(y.created) < Instant(z.created)
                    \/ Instant(y.created) = Instant(z.created) /\ y.id <= z.id
         IN  <<x>> \o InTimeOrder(S \ {x})

\* GET /transactions?account_id=a&since=s, the `data` of utils.py line 138:
\* the account's transactions, those created at or after the instant of
\* `since` when one is sent (`since or ""` sends none for None).
UpstreamTransactions(u, a, since) ==
    InTimeOrder({ x \in upItems[u] :
        /\ x.account = a
        /\ since # None => Instant(x.created) >= Instant(since[1]) })

(***************************************************************************)
(* utils.py MonzoAPI and the Python list operations of app.py.             *)
(***************************************************************************)
\* utils.py line 142 keeping every item of `data`
transactionsUnfiltered(data, since) == data

\* utils.py line 142: the items whose created string is not `since`
transactions(data, since) ==
    SelectSeq(data, LAMBDA x : ~(Some(x.created) = since))

\* itertools.chain(*item_data): the lists one after another
RECURSIVE Chain(_)
Chain(ls) == IF ls = <<>> THEN <<>> ELSE Head(ls) \o Chain(Tail(ls))

\* x placed after the items of the sorted list l whose key is not greater
RECURSIVE InsertByCreated(_, _)
InsertByCreated(l, x) ==
    IF l = <<>> THEN <<x>>
    ELSE IF StrKey(l[Len(l)].created) <= StrKey(x.created) THEN Append(l, x)
    ELSE Append(InsertByCreated(SubSeq(l, 1, Len(l) - 1), x), l[Len(l)])

\* line 111 left out
SortByCreatedOmitted(l) == l

\* line 111: list.sort keyed on the created string (stable)
RECURSIVE SortByCreated(_)
SortByCreated(l) ==
    IF l = <<>> THEN <<>>
    ELSE InsertByCreated(SortByCreated(SubSeq(l, 1, Len(l) - 1)), l[Len(l)])

\* the list objects some cache entry or request refers to
Referenced(c, q) ==
    { c[u].items : u \in DOMAIN c }
    \cup { q[r].ref : r \in { x \in Reqs : q[x].pc \notin {"idle", "done"} } }

\* a list object no name refers to is gone
Collect(h, c, q) ==
    [o \in ObjIds |-> IF o \in Referenced(c, q) THEN h[o] ELSE <<>>]

\* line 104 with `[]` the same list object in every request
FreshObjShared == CHOOSE o \in ObjIds : TRUE

\* line 104: `[]` is a new list object
FreshObj == CHOOSE o \in ObjIds : o \notin Referenced(cache, req)

(***************************************************************************)
(* The handlers.  A request r is at an await (pc names the call awaited)   *)
(* until upstream's answer is in its inbox and the handler resumes.        *)
(***************************************************************************)
Finish(r, how, v) ==
    [req[r] EXCEPT !.pc = "done", !.outcome = how, !.view = v, !.inbox = None,
                   !.ref = 0, !.sess = NoSession]

\* line 168, SimpleCookieStorage: the session object of a request is read
\* from the cookie the request carries, and the response of a request that
\* changed its session object to s sets the cookie of user u to s, whole.
Saved(u, s) == [sess EXCEPT ![u] = s]

\* lines 44-47: the session holds a token that has not expired
Authorised(s) == s.token /\ s.expires # None /\ ~(s.expires[1] < now)

\* the values rand_str may return
States == 1..MaxState

\* lines 30-37: the state st of rand_str is stored in the session
start_auth(s, st) == [s EXCEPT !.state = Some(st)]

\* user u's cache entry with the contents of its item list, None if absent
EntryOf(u) ==
    IF u \in DOMAIN cache
    THEN Some([accounts |-> cache[u].accounts, pots |-> cache[u].pots,
               items |-> heap[cache[u].items]])
    ELSE None

\* lines 39-52 and the first await of the handler (lines 76, 83, 94):
\* without a token that is still valid in the session the request carries
\* the answer is the redirect of start_auth.
Begin(r, u, kind) ==
    /\ req[r].pc \in {"idle", "done"}
    /\ IF Authorised(sess[u])
       THEN /\ req' = [req EXCEPT ![r] =
                        [IdleReq EXCEPT !.pc = "user", !.kind = kind,
                                        !.user = u, !.sess = sess[u],
                                        !.entry0 = EntryOf(u),
                                        !.upAtBegin = upAccounts[u]]]
            /\ UNCHANGED sess
       ELSE \E st \in States :
            /\ req' = [req EXCEPT ![r] =
                        [IdleReq EXCEPT !.pc = "done", !.kind = kind,
                                        !.user = u, !.entry0 = EntryOf(u),
                                        !.outcome = "redirect",
                                        !.state = Some(st)]]
            /\ sess' = Saved(u, start_auth(sess[u], st))
    /\ UNCHANGED <<upItems, upAccounts, cache, heap, returned, now>>
    /\ UNCHANGED aggVars

\* lines 58-64: the OAuth callback with the state st in its query.  Without
\* a state in the session sess["state"] raises KeyError, with another state
\* the answer is HTTPBadRequest; otherwise api.auth is awaited.
CallbackBegin(r, u, st) ==
    /\ req[r].pc \in {"idle", "done"}
    /\ req' = [req EXCEPT ![r] =
                IF sess[u].state = None
                THEN [IdleReq EXCEPT !.pc = "done", !.kind = "callback",
                                     !.user = u, !.outcome = "error"]
                ELSE IF sess[u].state # Some(st)
                THEN [IdleReq EXCEPT !.pc = "done", !.kind = "callback",
                                     !.user = u, !.outcome = "bad_request"]
                ELSE [IdleReq EXCEPT !.pc = "auth", !.kind = "callback",
                                     !.user = u, !.sess = sess[u]]]
    /\ UNCHANGED <<upItems, upAccounts, cache, heap, sess, returned, now,
                   opened>>
    /\ UNCHANGED aggVars

\* line 64 resumed, lines 69-71: the token upstream granted and the time it
\* expires, counted from now, are stored in the request's session, which
\* is saved.
CallbackAfterAuth(r) ==
    /\ req[r].pc = "auth" /\ req[r].inbox # None
    /\ sess' = Saved(req[r].user,
                     [req[r].sess EXCEPT !.token = TRUE,
                                         !.expires = Some(now + ExpiresIn)])
    /\ req' = [req EXCEPT ![r] = Finish(r, "ok", None)]
    /\ UNCHANGED <<upItems, upAccounts, cache, heap, returned, now, opened>>
    /\ UNCHANGED aggVars

\* Time passes.
Tick ==
    /\ now < MaxNow
    /\ now' = now + 1
    /\ UNCHANGED <<upItems, upAccounts, cache, heap, sess, req, returned,
                   opened>>
    /\ UNCHANGED aggVars

\* The calls request q awaits: one per account in the gathers of lines 102
\* and 109, one otherwise.
CallsOf(q) ==
    IF q.pc \in {"balance", "transactions"} THEN DOMAIN q.accounts ELSE {1}

\* Upstream answers the i-th of the calls request r awaits (utils.py lines
\* 85-99): with the data asked for, with status 401 (NotAuthorisedError is
\* raised) or with another error status (ClientResponseError is raised).
\* The handler resumes when every call is answered, or one has raised; the
\* body read at line 98 is the answer upstream gave, whenever it is read.
Respond(r, i, res) ==
    /\ req[r].pc \in Ops
    /\ req[r].inbox = None /\ req[r].fault = ""
    /\ i \in CallsOf(req[r]) \ DOMAIN req[r].part
    /\ LET u == req[r].user
           data == CASE req[r].pc = "auth" -> "access_token"
                     [] req[r].pc = "user" -> u
                     [] req[r].pc = "accounts" -> upAccounts[u]
                     [] req[r].pc = "balance" -> "balance"
                     [] req[r].pc = "transactions" ->
                            UpstreamTransactions(u, req[r].accounts[i].id,
                                                 req[r].since)
           part1 == req[r].part @@ (i :> data)
           gathered == IF req[r].pc \in {"balance", "transactions"}
                       THEN [k \in DOMAIN req[r].accounts |-> part1[k]]
                       ELSE part1[1]
       IN  req' = [req EXCEPT ![r] =
                    IF res # "ok"
                    THEN [@ EXCEPT !.fault = res,
                                   !.calls[req[r].pc] = @ + 1]
                    ELSE IF DOMAIN part1 = CallsOf(req[r])
                    THEN [@ EXCEPT !.inbox = Some(gathered),
                                   !.part = EmptyDict,
                                   !.calls[req[r].pc] = @ + 1]
                    ELSE [@ EXCEPT !.part = part1,
                                   !.calls[req[r].pc] = @ + 1]]
    /\ UNCHANGED <<upItems, upAccounts, cache, heap, sess, returned, now, opened>>
    /\ UNCHANGED aggVars

\* lines 53-54 sending the call again after NotAuthorisedError
RaiseRetry(r) ==
    /\ req[r].fault # ""
    /\ req' = [req EXCEPT ![r].fault = ""]
    /\ UNCHANGED <<upItems, upAccounts, cache, heap, sess, returned, now, opened>>
    /\ UNCHANGED aggVars

\* lines 51-54 with the user's entry dropped when the handler raises
RaiseDropEntry(r) ==
    /\ req[r].fault # ""
    /\ LET u == req[r].user
           cache1 == IF u \in DOMAIN cache THEN DictDel(cache, u) ELSE cache
           req1 == [req EXCEPT ![r] =
                      [Finish(r, "upstream_error", None)
                         EXCEPT !.fault = "", !.part = EmptyDict]]
       IN  /\ req' = req1
           /\ cache' = cache1
           /\ heap' = Collect(heap, cache1, req1)
    /\ UNCHANGED <<upItems, upAccounts, sess, returned, now, opened>>
    /\ UNCHANGED aggVars

\* An exception leaves the handler, which catches nothing: the call it
\* awaited raised (utils.py lines 94-97) or the handler itself did (lines
\* 101, 108).  Under auth_redir NotAuthorisedError ends in the redirect of
\* start_auth (lines 53-54), saved with the request's session; any other
\* exception, and any in callback, ends the request with an error.
Raise(r) ==
    /\ req[r].fault # ""
    /\ IF req[r].fault = "unauthorised" /\ req[r].kind # "callback"
       THEN \E st \in States :
            /\ req' = [req EXCEPT ![r] =
                        [Finish(r, "redirect", None)
                           EXCEPT !.fault = "", !.part = EmptyDict,
                                  !.state = Some(st)]]
            /\ sess' = Saved(req[r].user, start_auth(req[r].sess, st))
       ELSE /\ req' = [req EXCEPT ![r] =
                        [Finish(r, IF req[r].fault = "exception"
                                   THEN "error" ELSE "upstream_error", None)
                           EXCEPT !.fault = "", !.part = EmptyDict]]
            /\ UNCHANGED sess
    /\ heap' = Collect(heap, cache, req')
    /\ UNCHANGED <<upItems, upAccounts, cache, returned, now, opened>>
    /\ UNCHANGED aggVars

\* lines 100-102 with `accounts` known: with no open account `next`
\* raises, otherwise the balances are awaited.
AfterAccounts(q, accounts) ==
    IF \E i \in DOMAIN accounts : ~accounts[i].closed
    THEN [q EXCEPT !.pc = "balance", !.accounts = accounts, !.pots = <<>>,
                   !.inbox = None]
    ELSE [q EXCEPT !.fault = "exception", !.inbox = None]

\* lines 94-99 fetching accounts and pots whether or not an entry exists
BaseAfterUserRefetch(r) ==
    /\ req[r].pc = "user" /\ req[r].kind = "base" /\ req[r].inbox # None
    /\ req' = [req EXCEPT ![r] =
                [@ EXCEPT !.pc = "accounts", !.inbox = None,
                          !.cached95 = req[r].user \in DOMAIN cache]]
    /\ UNCHANGED <<upItems, upAccounts, cache, heap, sess, returned, now, opened>>
    /\ UNCHANGED aggVars

\* lines 94-102: with an entry its accounts and pots are reused and the
\* balances awaited; without one accounts and pots are awaited.
BaseAfterUser(r) ==
    /\ req[r].pc = "user" /\ req[r].kind = "base" /\ req[r].inbox # None
    /\ LET user == req[r].inbox[1] IN
        req' = [req EXCEPT ![r] =
                 IF user \in DOMAIN cache
                 THEN [AfterAccounts(@, cache[user].accounts)
                         EXCEPT !.cached95 = TRUE, !.pots = cache[user].pots]
                 ELSE [@ EXCEPT !.pc = "accounts", !.inbox = None]]
    /\ UNCHANGED <<upItems, upAccounts, cache, heap, sess, returned, now, opened>>
    /\ UNCHANGED aggVars

\* line 99 resumed, lines 100-102.
BaseAfterAccounts(r) ==
    /\ req[r].pc = "accounts" /\ req[r].inbox # None
    /\ req' = [req EXCEPT ![r] = AfterAccounts(@, req[r].inbox[1])]
    /\ UNCHANGED <<upItems, upAccounts, cache, heap, sess, returned, now, opened>>
    /\ UNCHANGED aggVars

\* line 102 resumed, lines 103-109: `items` names the entry's list when
\* there is one, and `since` is the created string of its last item
\* (items[-1] of an empty list raises IndexError).
BaseAfterBalance(r) ==
    /\ req[r].pc = "balance" /\ req[r].inbox # None
    /\ LET user == req[r].user IN
        req' = [req EXCEPT ![r] =
                 IF user \in DOMAIN cache
                 THEN LET items == heap[cache[user].items] IN
                      IF items = <<>>
                      THEN [@ EXCEPT !.fault = "exception",
                                     !.inbox = None, !.cached106 = TRUE]
                      ELSE [@ EXCEPT !.pc = "transactions", !.inbox = None,
                                     !.cached106 = TRUE,
                                     !.ref = cache[user].items,
                                     !.since = Some(items[Len(items)].created)]
                 ELSE [@ EXCEPT !.pc = "transactions", !.inbox = None,
                                !.ref = FreshObj, !.since = None]]
    /\ UNCHANGED <<upItems, upAccounts, cache, heap, sess, returned, now, opened>>
    /\ UNCHANGED aggVars

\* lines 110-114 with line 110 replacing the contents of the list by the
\* newly fetched items
BaseAfterTransactionsReplace(r) ==
    /\ req[r].pc = "transactions" /\ req[r].inbox # None
    /\ LET user == req[r].user
           data == req[r].inbox[1]
           item_data == [i \in DOMAIN data |-> transactions(data[i], req[r].since)]
           items == SortByCreated(Chain(item_data))
           entry == [accounts |-> req[r].accounts, pots |-> req[r].pots,
                     items |-> req[r].ref]
           cache1 == DictPut(cache, user, entry)
           req1 == [req EXCEPT ![r] = [@ EXCEPT !.pc = "closing",
                                                 !.inbox = None]]
       IN  /\ cache' = cache1
           /\ req' = req1
           /\ heap' = Collect([heap EXCEPT ![req[r].ref] = items], cache1, req1)
           /\ returned' = [returned EXCEPT ![user] =
                             @ \cup { x.id : x \in
                                 UNION { { data[i][k] : k \in DOMAIN data[i] } :
                                         i \in DOMAIN data } }]
    /\ UNCHANGED <<upItems, upAccounts, sess, now, opened>>
    /\ UNCHANGED aggVars

\* line 109 resumed, lines 110-114: the answers are filtered (utils.py line
\* 142), chained onto the list `items` names, and the list is sorted in
\* place and stored; then the exit of `async with api` is awaited (utils.py
\* lines 105-107).
BaseAfterTransactions(r) ==
    /\ req[r].pc = "transactions" /\ req[r].inbox # None
    /\ LET user == req[r].user
           data == req[r].inbox[1]
           item_data == [i \in DOMAIN data |-> transactions(data[i], req[r].since)]
           items == SortByCreated(heap[req[r].ref] \o Chain(item_data))
           entry == [accounts |-> req[r].accounts, pots |-> req[r].pots,
                     items |-> req[r].ref]
           cache1 == DictPut(cache, user, entry)
           ids == { items[k].id : k \in DOMAIN items }
           req1 == [req EXCEPT ![r] =
                      [@ EXCEPT !.pc = "closing", !.inbox = None,
                                !.had = { heap[req[r].ref][k].id :
                                            k \in DOMAIN heap[req[r].ref] },
                                !.lost = IF user \in DOMAIN cache
                                         THEN { x.id : x \in
                                                  { heap[cache[user].items][k] :
                                                      k \in DOMAIN heap[cache[user].items] } }
                                              \ ids
                                         ELSE {}]]
       IN  /\ cache' = cache1
           /\ req' = req1
           /\ heap' = Collect([heap EXCEPT ![req[r].ref] = items], cache1, req1)
           /\ returned' = [returned EXCEPT ![user] =
                             @ \cup { x.id : x \in
                                 UNION { { data[i][k] : k \in DOMAIN data[i] } :
                                         i \in DOMAIN data } }]
    /\ UNCHANGED <<upItems, upAccounts, sess, now, opened>>
    /\ UNCHANGED aggVars

\* lines 115-153 with the loop of line 121 run over the items this request
\* added only
BaseAfterCloseNewOnly(r) ==
    /\ req[r].pc = "closing"
    /\ LET items == heap[req[r].ref]
           added == SelectSeq(items, LAMBDA x : x.id \notin req[r].had)
           req1 == [req EXCEPT ![r] =
                      Finish(r, "ok", Some(ViewOf(req[r].accounts, req[r].pots,
                                                  items, AggPass(AggInit, added))))]
       IN  /\ req' = req1
           /\ heap' = Collect(heap, cache, req1)
    /\ UNCHANGED <<upItems, upAccounts, cache, sess, returned, now, opened>>
    /\ UNCHANGED aggVars

\* the exit of `async with api` resumed, lines 115-153: the view is
\* computed from the list `items` names, as it is by now.
BaseAfterClose(r) ==
    /\ req[r].pc = "closing"
    /\ LET items == heap[req[r].ref]
           req1 == [req EXCEPT ![r] =
                      Finish(r, "ok", Some(ViewOf(req[r].accounts, req[r].pots,
                                                  items, AggPass(AggInit, items))))]
       IN  /\ req' = req1
           /\ heap' = Collect(heap, cache, req1)
    /\ UNCHANGED <<upItems, upAccounts, cache, sess, returned, now, opened>>
    /\ UNCHANGED aggVars

\* lines 76-79 and 83-87 emptying the whole cache
ClearAfterUserAll(r) ==
    /\ req[r].pc = "user" /\ req[r].kind \in {"clear", "logout"}
    /\ req[r].inbox # None
    /\ LET req1 == [req EXCEPT ![r] = Finish(r, "ok", None)]
       IN  /\ cache' = EmptyDict
           /\ req' = req1
           /\ heap' = Collect(heap, EmptyDict, req1)
           /\ returned' = [returned EXCEPT ![req[r].user] = {}]
           /\ sess' = IF req[r].kind = "logout"
                      THEN Saved(req[r].user,
                                 [req[r].sess EXCEPT !.token = FALSE])
                      ELSE sess
    /\ UNCHANGED <<upItems, upAccounts, now, opened>>
    /\ UNCHANGED aggVars

\* lines 76-79 and 83-87 after the await: the entry is deleted if present;
\* logout then deletes the token of the request's session (KeyError if it
\* has none), which is saved.
ClearAfterUser(r) ==
    /\ req[r].pc = "user" /\ req[r].kind \in {"clear", "logout"}
    /\ req[r].inbox # None
    /\ LET user == req[r].inbox[1]
           cache1 == IF user \in DOMAIN cache THEN DictDel(cache, user) ELSE cache
           raises == req[r].kind = "logout" /\ ~req[r].sess.token
           req1 == [req EXCEPT ![r] =
                      Finish(r, IF raises THEN "error" ELSE "ok", None)]
       IN  /\ cache' = cache1
           /\ req' = req1
           /\ heap' = Collect(heap, cache1, req1)
           /\ returned' = [returned EXCEPT ![user] = {}]
           /\ sess' = IF req[r].kind = "logout" /\ ~raises
                      THEN Saved(req[r].user,
                                 [req[r].sess EXCEPT !.token = FALSE])
                      ELSE sess
    /\ UNCHANGED <<upItems, upAccounts, now, opened>>
    /\ UNCHANGED aggVars

\* the aggregation loop's variables while the handlers run
AggIdle ==
    /\ aItems = <<>>
    /\ aIdx = 0
    /\ acc = AggInit
    /\ pairs = {}
    /\ aRet = None

Init == AppInit /\ AggIdle

\* The client sends a request of this kind: the dashboard requests are
\* counted, and MaxOpen of them are sent at most.
Sent(kind) ==
    IF kind = "base"
    THEN opened < MaxOpen /\ opened' = opened + 1
    ELSE UNCHANGED opened

\* One request at a time, of user u1, against an upstream that answers every
\* call: request r1 begins only when it is not in flight.
Next ==
    \/ UpstreamRecord("u1", FALSE)
    \/ UpstreamClose("u1")
    \/ \E st \in States : CallbackBegin("r1", "u1", st)
    \/ CallbackAfterAuth("r1")
    \/ \E kind \in {"base", "clear", "logout"} :
           Sent(kind) /\ Begin("r1", "u1", kind)
    \/ \E i \in DOMAIN Accounts0 : Respond("r1", i, "ok")
    \/ Raise("r1")
    \/ BaseAfterUser("r1")
    \/ BaseAfterAccounts("r1")
    \/ BaseAfterBalance("r1")
    \/ BaseAfterTransactions("r1")
    \/ BaseAfterClose("r1")
    \/ ClearAfterUser("r1")

Spec == Init /\ [][Next]_vars

\* One guarded request at a time, r1, and one callback at a time, r2, which
\* overlap, while the clock runs and upstream may answer a call with 401 or
\* with another error.
NextAuth ==
    \/ UpstreamRecord("u1", TRUE)
    \/ \E st \in States : CallbackBegin("r2", "u1", st)
    \/ CallbackAfterAuth("r2")
    \/ Tick
    \/ \E kind \in {"base", "clear", "logout"} :
           Begin("r1", "u1", kind) /\ UNCHANGED opened
    \/ \E r \in Reqs, i \in DOMAIN Accounts0,
          res \in {"ok", "unauthorised", "error"} : Respond(r, i, res)
    \/ \E r \in Reqs : Raise(r)
    \/ BaseAfterUser("r1")
    \/ BaseAfterAccounts("r1")
    \/ BaseAfterBalance("r1")
    \/ BaseAfterTransactions("r1")
    \/ BaseAfterClose("r1")
    \/ ClearAfterUser("r1")

SpecAuth == Init /\ [][NextAuth]_vars

\* the user each request of SpecIso belongs to
UserOf == [r \in Reqs |-> IF r = "r1" THEN "u1" ELSE "u2"]

InitIso == AppStart([u \in Users |-> LoggedIn]) /\ AggIdle

\* Two users, logged in, with a session each; their requests interleave at
\* the awaits.  Upstream records MaxTxn transactions in all.
NextIso ==
    \/ \E u \in Users :
           Cardinality(AllUpItems) < MaxTxn /\ UpstreamRecord(u, TRUE)
    \/ \E r \in Reqs, kind \in {"base", "clear", "logout"} :
           Begin(r, UserOf[r], kind) /\ UNCHANGED opened
    \/ \E r \in Reqs, i \in DOMAIN Accounts0 : Respond(r, i, "ok")
    \/ \E r \in Reqs : Raise(r)
    \/ \E r \in Reqs : BaseAfterUser(r)
    \/ \E r \in Reqs : BaseAfterAccounts(r)
    \/ \E r \in Reqs : BaseAfterBalance(r)
    \/ \E r \in Reqs : BaseAfterTransactions(r)
    \/ \E r \in Reqs : BaseAfterClose(r)
    \/ \E r \in Reqs : ClearAfterUser(r)

SpecIso == InitIso /\ [][NextIso]_vars

InitRace ==
    AppStart([u \in Users |-> IF u = "u1" THEN LoggedIn ELSE NoSession])
    /\ AggIdle

\* Two requests of user u1, interleaved at the awaits.
NextRace ==
    \/ UpstreamRecord("u1", TRUE)
    \/ \E r \in Reqs, kind \in {"base", "clear", "logout"} :
           Begin(r, "u1", kind) /\ UNCHANGED opened
    \/ \E r \in Reqs, i \in DOMAIN Accounts0 : Respond(r, i, "ok")
    \/ \E r \in Reqs : Raise(r)
    \/ \E r \in Reqs : BaseAfterUser(r)
    \/ \E r \in Reqs : BaseAfterAccounts(r)
    \/ \E r \in Reqs : BaseAfterBalance(r)
    \/ \E r \in Reqs : BaseAfterTransactions(r)
    \/ \E r \in Reqs : BaseAfterClose(r)
    \/ \E r \in Reqs : ClearAfterUser(r)

SpecRace == InitRace /\ [][NextRace]_vars

InitAgg ==
    /\ WideInput(aItems) \/ NarrowInput(aItems)
    /\ aIdx = 0
    /\ acc = AggInit
    /\ pairs = {}
    /\ aRet = None
    /\ AppInit

NextAgg == LoopStep \/ LoopReturn

SpecAgg == InitAgg /\ [][NextAgg]_vars

(***************************************************************************)
(* Properties of the aggregation loop, checked under SpecAgg.              *)
(***************************************************************************)
\* An item the totals and the matcher are meant to see.
Eligible(item) == item.amount # 0 /\ item.decline_reason = None

\* The merchant name of an item, else its counterparty name, else None.
NameOf(item) ==
    IF item.merchant # None THEN item.merchant ELSE item.counterparty

\* The sum of the amounts of the items of l at the positions I.
RECURSIVE SumAt(_, _)
SumAt(l, I) ==
    IF I = {} THEN 0
    ELSE LET i == CHOOSE x \in I : TRUE IN l[i].amount + SumAt(l, I \ {i})

\* The sum of the values of a dictionary.
RECURSIVE SumDict(_)
SumDict(d) ==
    IF DOMAIN d = {} THEN 0
    ELSE LET k == CHOOSE x \in DOMAIN d : TRUE IN d[k] + SumDict(DictDel(d, k))

Returned == aRet # None

View == aRet[1]

Positions == 1..Len(aItems)

EligibleAt == { i \in Positions : Eligible(aItems[i]) }

\* C3. Aggregator totals: in the returned view the inbound sums of all
\* months add up to the sum of the positive amounts of the items with a
\* non-zero amount and no decline reason, and the outbound sums add up to
\* the sum of the negative amounts of those same items.
C3_AggregatorTotals ==
    Returned =>
        /\ SumDict(View.inbounds)
             = SumAt(aItems, { i \in EligibleAt : aItems[i].amount > 0 })
        /\ SumDict(View.outbounds)
             = SumAt(aItems, { i \in EligibleAt : aItems[i].amount < 0 })

\* C3's case: a returned view of a list holding an inbound item and a
\* declined item of positive amount in the same month.
C3_Witness ==
    /\ Returned
    /\ \E i, k \in Positions :
        /\ Eligible(aItems[i]) /\ aItems[i].amount > 0
        /\ aItems[k].decline_reason # None /\ aItems[k].amount > 0
        /\ date_format(aItems[k].created) = date_format(aItems[i].created)

\* The positions i < j of an eligible +X item and a later eligible -X item
\* of the same name, no other eligible item of that name having amount +X
\* or -X.
LonePair(i, j) ==
    /\ i < j
    /\ Eligible(aItems[i]) /\ Eligible(aItems[j])
    /\ NameOf(aItems[i]) # None
    /\ NameOf(aItems[j]) = NameOf(aItems[i])
    /\ aItems[i].amount > 0
    /\ aItems[j].amount = -aItems[i].amount
    /\ \A k \in EligibleAt \ {i, j} :
        NameOf(aItems[k]) = NameOf(aItems[i])
            => aItems[k].amount \notin {aItems[i].amount, -aItems[i].amount}

\* C4. Matcher pair detection: after the pass, a lone pair A(+X) then B(-X)
\* of one name has both identifiers in the duplicate set and the pending
\* map holds no entry for (name, +X) or (name, -X); for the two-item list
\* [A, B] the pending map is empty.
C4_PairDetected ==
    Returned =>
        \A i, j \in Positions :
            LonePair(i, j) =>
                /\ {aItems[i].id, aItems[j].id} \subseteq View.dupes
                /\ <<NameOf(aItems[i]), aItems[i].amount>> \notin DOMAIN acc.matches
                /\ <<NameOf(aItems[i]), -aItems[i].amount>> \notin DOMAIN acc.matches
                /\ Len(aItems) = 2 => acc.matches = EmptyDict

\* C4's case: a returned pass over a list of more than two items that
\* holds a lone pair, with another item left pending.
C4_Witness ==
    /\ Returned
    /\ Len(aItems) > 2
    /\ \E i, j \in Positions : LonePair(i, j)
    /\ acc.matches # EmptyDict

ItemOfId(i) == aItems[CHOOSE k \in Positions : aItems[k].id = i]

PosOfId(i) == CHOOSE k \in Positions : aItems[k].id = i

\* C5. Matcher pairs are disjoint: the duplicate set is the union of the
\* pairs matched, no identifier is in two pairs (so its size is twice the
\* number of pairs), and each pair is an earlier and a later item of the
\* same name and opposite amounts.  For the list A(+X), B(+X), C(-X) of one
\* name the duplicate set is C with exactly one of A and B.
C5_DisjointPairs ==
    /\ acc.dupes = UNION { {pr[1], pr[2]} : pr \in pairs }
    /\ Cardinality(acc.dupes) = 2 * Cardinality(pairs)
    /\ \A pr \in pairs :
        /\ PosOfId(pr[1]) < PosOfId(pr[2])
        /\ PosOfId(pr[2]) <= aIdx
        /\ NameOf(ItemOfId(pr[1])) = NameOf(ItemOfId(pr[2]))
        /\ ItemOfId(pr[1]).amount = -ItemOfId(pr[2]).amount
    /\ ( /\ Returned /\ Len(aItems) = 3
         /\ \A i \in Positions : Eligible(aItems[i])
         /\ \A i \in Positions : NameOf(aItems[i]) = NameOf(aItems[1])
         /\ aItems[1].amount > 0
         /\ aItems[2].amount = aItems[1].amount
         /\ aItems[3].amount = -aItems[1].amount )
       => /\ Cardinality(View.dupes) = 2
          /\ aItems[3].id \in View.dupes
          /\ Cardinality(View.dupes \cap {aItems[1].id, aItems[2].id}) = 1

\* C5's case: the pass over A(+X), B(+X), C(-X) of one name has returned.
C5_Witness ==
    /\ Returned /\ Len(aItems) = 3
    /\ \A i \in Positions : NameOf(aItems[i]) = Some("M")
    /\ aItems[1].amount = 1 /\ aItems[2].amount = 1 /\ aItems[3].amount = -1
    /\ Cardinality(pairs) = 1

\* The earlier eligible items whose key is the complement of item c's key
\* and that no item before c was paired with.
UnmatchedBefore(c) ==
    { q \in 1..(c - 1) :
        /\ Eligible(aItems[q])
        /\ NameOf(aItems[q]) = NameOf(aItems[c])
        /\ aItems[q].amount = -aItems[c].amount
        /\ \A pr \in pairs :
            aItems[q].id \in {pr[1], pr[2]} => PosOfId(pr[2]) >= c }

\* C6 as claimed. Matcher greedy order: an item is paired with the earliest
\* of the earlier unmatched items that have the complement key.
C6_PairsWithEarliest ==
    \A pr \in pairs :
        \A q \in UnmatchedBefore(PosOfId(pr[2])) : PosOfId(pr[1]) <= q

\* C6 as amended. An item is paired with the latest of the earlier
\* unmatched items that have the complement key, and the earlier ones of
\* them are never flagged, by this item or by a later one.
C6_PairsWithLatest ==
    \A pr \in pairs :
        \A q \in UnmatchedBefore(PosOfId(pr[2])) :
            /\ q <= PosOfId(pr[1])
            /\ q # PosOfId(pr[1]) => aItems[q].id \notin acc.dupes

\* C6's case: the pass has returned, an item was paired while two earlier
\* unmatched items had the complement key, and a later item had the key of
\* those two.
C6_Witness ==
    /\ Returned
    /\ \E pr \in pairs :
        /\ Cardinality(UnmatchedBefore(PosOfId(pr[2]))) >= 2
        /\ \E d \in Positions :
            /\ d > PosOfId(pr[2])
            /\ NameOf(aItems[d]) = NameOf(ItemOfId(pr[2]))
            /\ aItems[d].amount = ItemOfId(pr[2]).amount

\* C7 as claimed. Nameless items are never matchable: an item with neither
\* a merchant name nor a counterparty name is never in the duplicate set
\* and never causes another item to be added to it.
C7_NamelessNeverMatched ==
    /\ \A i \in 1..aIdx :
        NameOf(aItems[i]) = None => aItems[i].id \notin acc.dupes
    /\ \A pr \in pairs :
        NameOf(ItemOfId(pr[1])) # None /\ NameOf(ItemOfId(pr[2])) # None

Excluded(item) == item.amount = 0 \/ item.decline_reason # None

Range(d) == { d[k] : k \in DOMAIN d }

\* C8. Excluded items: an item with a zero amount or a decline reason is in
\* the returned item list, is never in the pending map nor in the duplicate
\* set at any iteration, and adds to no total: the accumulators of the
\* pass are those of the same list with the excluded items removed.
C8_ExcludedItems ==
    /\ \A i \in 1..aIdx :
        Excluded(aItems[i]) =>
            /\ aItems[i].id \notin Range(acc.matches)
            /\ aItems[i].id \notin acc.dupes
    /\ Returned =>
        /\ acc = AggPass(AggInit, SelectSeq(aItems, Eligible))
        /\ View.items = aItems

\* C8's case: a returned pass over a declined item followed by an eligible
\* item of the same name and the opposite amount.
C8_Witness ==
    /\ Returned
    /\ \E i, j \in Positions :
        /\ i < j
        /\ aItems[i].decline_reason # None /\ aItems[i].amount # 0
        /\ Eligible(aItems[j])
        /\ NameOf(aItems[j]) = NameOf(aItems[i])
        /\ aItems[j].amount = -aItems[i].amount

\* The sum of the eligible items among the first n whose month is m and
\* for which key(item) = k.
Expected(n, m, key(_), k) ==
    SumAt(aItems, { i \in 1..n : /\ Eligible(aItems[i])
                                 /\ date_format(aItems[i].created) = m
                                 /\ key(aItems[i]) = k })

MonthsOf(n) == { date_format(aItems[i].created) : i \in { j \in 1..n : Eligible(aItems[j]) } }

KeysOf(n, m, key(_)) ==
    { key(aItems[i]) : i \in { j \in 1..n : /\ Eligible(aItems[j])
                                          /\ date_format(aItems[j].created) = m } }

CategoryOf(item) == item.category

Sign(item) == IF item.amount > 0 THEN "in" ELSE "out"

\* C9. Flag-only duplicates: every eligible item adds its full amount to
\* the inbound or outbound sum, the category total and the merchant total
\* of its month, whether or not it is in the duplicate set: each total is
\* the plain sum of the eligible items of its month and key.
C9_FlagOnly ==
    Returned =>
    /\ DOMAIN acc.merchants = MonthsOf(aIdx)
    /\ DOMAIN acc.categories = MonthsOf(aIdx)
    /\ \A m \in MonthsOf(aIdx) :
        /\ DOMAIN acc.merchants[m] = KeysOf(aIdx, m, BucketOf)
        /\ \A k \in DOMAIN acc.merchants[m] :
            acc.merchants[m][k] = Expected(aIdx, m, BucketOf, k)
        /\ DOMAIN acc.categories[m] = KeysOf(aIdx, m, CategoryOf)
        /\ \A k \in DOMAIN acc.categories[m] :
            acc.categories[m][k] = Expected(aIdx, m, CategoryOf, k)
        /\ m \in DOMAIN acc.inbounds <=> "in" \in KeysOf(aIdx, m, Sign)
        /\ m \in DOMAIN acc.inbounds =>
            acc.inbounds[m] = Expected(aIdx, m, Sign, "in")
        /\ m \in DOMAIN acc.outbounds <=> "out" \in KeysOf(aIdx, m, Sign)
        /\ m \in DOMAIN acc.outbounds =>
            acc.outbounds[m] = Expected(aIdx, m, Sign, "out")
    /\ DOMAIN acc.inbounds \subseteq MonthsOf(aIdx)
    /\ DOMAIN acc.outbounds \subseteq MonthsOf(aIdx)

\* C9's case: the pass has returned with two items flagged as duplicates.
C9_Witness ==
    /\ Returned
    /\ Cardinality(View.dupes) = 2
    /\ DOMAIN View.merchants # {}

\* The value of merchants[m][k], 0 while the bucket does not exist.
BucketValue(d, m, k) ==
    IF m \in DOMAIN d /\ k \in DOMAIN d[m] THEN d[m][k] ELSE 0

\* every bucket of d, as <<month, key>>
BucketsOf(d) == { <<m, k>> : m \in DOMAIN d, k \in UNION { DOMAIN d[x] : x \in DOMAIN d } }

\* The bucket the claim names: the merchant name if a merchant is present,
\* else the counterparty name if a counterparty is present, else "Top-up"
\* if is_load is set, else the empty label.
ClaimedBucket(item) ==
    IF item.merchant # None THEN item.merchant[1]
    ELSE IF item.counterparty # None THEN item.counterparty[1]
    ELSE IF item.is_load THEN "Top-up"
    ELSE ""

\* The same, an empty name counting as no name once the merchant or else the
\* counterparty has been consulted.
ResolvedBucket(item) ==
    LET name == IF item.merchant # None THEN item.merchant[1]
                ELSE IF item.counterparty # None THEN item.counterparty[1]
                ELSE ""
    IN  IF name # "" THEN name
        ELSE IF item.is_load THEN "Top-up"
        ELSE ""

\* The loop consumes the eligible item `item` in this step and adds its
\* amount to the bucket key(item) of its month and to no other bucket.
AddsToBucket(key(_)) ==
    aIdx' = aIdx + 1 /\ Eligible(aItems[aIdx + 1]) =>
        LET item == aItems[aIdx + 1]
            month == date_format(item.created)
        IN  \A b \in BucketsOf(acc.merchants) \cup BucketsOf(acc'.merchants)
                    \cup {<<month, key(item)>>} :
                BucketValue(acc'.merchants, b[1], b[2])
                    = BucketValue(acc.merchants, b[1], b[2])
                        + (IF b = <<month, key(item)>> THEN item.amount ELSE 0)

\* C13 as claimed. Merchant bucket resolution: each eligible item's amount
\* is added to exactly one bucket of merchants[month]: the merchant name if
\* a merchant is present, else the counterparty name if a counterparty is
\* present, else "Top-up" if is_load is set, else the empty label; an item
\* with a merchant or a counterparty is never bucketed under "Top-up".
C13_BucketByPresence == [][AddsToBucket(ClaimedBucket)]_vars

\* C13 as amended. Each eligible item's amount is added to exactly one
\* bucket of merchants[month]: the merchant name if a merchant is present,
\* else the counterparty name if a counterparty is present; when that name
\* is empty or there is neither, "Top-up" if is_load is set, else the empty
\* label.  An item with a non-empty merchant or counterparty name is never
\* bucketed under "Top-up"; a present merchant with an empty name keeps the
\* counterparty from being consulted.
C13_BucketByName ==
    [][/\ AddsToBucket(ResolvedBucket)
       /\ aIdx' = aIdx + 1 /\ Eligible(aItems[aIdx + 1])
            /\ Truthy(NameOf(aItems[aIdx + 1]))
            /\ "Top-up" \notin { b[2] : b \in BucketsOf(acc.merchants) }
          => "Top-up" \notin { b[2] : b \in BucketsOf(acc'.merchants) }]_vars

\* C13's case: the pass has returned over a list with a loaded item that
\* has a merchant of a non-empty name, bucketed under that name, and a
\* loaded item without a name, bucketed under "Top-up".
C13_Witness ==
    /\ Returned
    /\ \E i, j \in Positions :
        /\ Eligible(aItems[i]) /\ aItems[i].is_load
        /\ aItems[i].merchant = Some("M") /\ aItems[i].counterparty # None
        /\ Eligible(aItems[j]) /\ aItems[j].is_load
        /\ aItems[j].merchant = None /\ aItems[j].counterparty = None
        /\ date_format(aItems[j].created) = date_format(aItems[i].created)
        /\ DOMAIN acc.merchants[date_format(aItems[i].created)] = {"M", "Top-up"}

(***************************************************************************)
(* Properties of the ledger cache, checked under Spec.                     *)
(***************************************************************************)
\* The item list of user u's cache entry.
CachedItems(u) == heap[cache[u].items]

IdsOf(l) == { l[i].id : i \in DOMAIN l }

\* C1 as claimed. Cache completeness: while no clear or logout intervenes,
\* the identifiers in a user's cached item list are exactly the identifiers
\* upstream returned to that user's transaction fetches.
C1_CacheComplete ==
    \A u \in DOMAIN cache : IdsOf(CachedItems(u)) = returned[u]

\* C2 as claimed. Cache ordering and uniqueness: every cached item list is
\* in ascending order of the instants its created timestamps denote and
\* holds no identifier twice.
C2_SortedUnique ==
    \A u \in DOMAIN cache :
        \A i, j \in DOMAIN CachedItems(u) :
            i < j =>
                /\ Instant(CachedItems(u)[i].created)
                     <= Instant(CachedItems(u)[j].created)
                /\ CachedItems(u)[i].id # CachedItems(u)[j].id

\* Request r, which found a cache entry for its user at line 95, stores
\* the entry in this step (lines 110-114).
RefreshStores(r) ==
    /\ req[r].pc = "transactions"
    /\ req'[r].pc = "closing"
    /\ req[r].cached95

\* Request r completes a dashboard refresh in this step, having found a
\* cache entry for its user at line 95.
RefreshCompletes(r) ==
    /\ req[r].pc = "closing"
    /\ req'[r].pc = "done"
    /\ req'[r].outcome = "ok"
    /\ req[r].cached95

\* C10 as claimed. Accounts are refreshed on every call: a refresh that
\* found a cache entry, during which upstream's accounts did not change,
\* returns and stores upstream's current accounts.
C10_AccountsRefreshed ==
    [][\A r \in Reqs :
        /\ RefreshStores(r) /\ req[r].upAtBegin = upAccounts[req[r].user]
            => cache'[req[r].user].accounts = upAccounts[req[r].user]
        /\ RefreshCompletes(r) /\ req[r].upAtBegin = upAccounts[req[r].user]
            => req'[r].view[1].accounts = upAccounts[req[r].user]]_vars

\* C10 as amended. Accounts and pots are fetched only when no cache entry
\* exists: a refresh that found an entry returns and stores the accounts
\* and pots of that entry, whatever upstream's accounts are by then.
C10_AccountsReused ==
    [][\A r \in Reqs :
        /\ RefreshStores(r)
            => /\ req[r].user \in DOMAIN cache
               /\ cache'[req[r].user].accounts = cache[req[r].user].accounts
               /\ cache'[req[r].user].pots = cache[req[r].user].pots
        /\ RefreshCompletes(r)
            => /\ req[r].user \in DOMAIN cache
               /\ req'[r].view[1].accounts = cache[req[r].user].accounts
               /\ req'[r].view[1].pots = cache[req[r].user].pots
        /\ req[r].pc # "accounts" /\ req'[r].pc = "accounts"
            => req[r].user \notin DOMAIN cache]_vars

\* C10's case: a refresh that found an entry has completed, begun after
\* upstream's accounts had changed from the ones the entry holds.
C10_Witness ==
    \E r \in Reqs :
        /\ req[r].pc = "done" /\ req[r].kind = "base" /\ req[r].outcome = "ok"
        /\ req[r].cached95
        /\ req[r].upAtBegin = upAccounts[req[r].user]
        /\ req[r].view[1].accounts # upAccounts[req[r].user]
        /\ req[r].user \in DOMAIN cache
        /\ cache[req[r].user].accounts = req[r].view[1].accounts

\* The dashboard request r, which found an entry at line 106, stores its
\* list in this step.
IncrementalCompletes(r) ==
    /\ req[r].pc = "transactions"
    /\ req'[r].pc = "closing"
    /\ req[r].cached106

\* C12 as claimed. Refresh idempotence: a refresh of an existing entry while
\* upstream holds no transaction of the user that is not in the cached list
\* leaves the cached list as it was: the same items in the same order.
C12_RefreshIdempotent ==
    [][\A r \in Reqs :
        /\ IncrementalCompletes(r)
        /\ { x.id : x \in upItems[req[r].user] } \subseteq IdsOf(heap[req[r].ref])
        => heap'[cache'[req[r].user].items] = heap[req[r].ref]]_vars

\* The positions i and j of l hold the only two eligible items of one name
\* and of amounts +X and -X.
LonePairIn(l, i, j) ==
    /\ Eligible(l[i]) /\ Eligible(l[j])
    /\ NameOf(l[i]) # None /\ NameOf(l[j]) = NameOf(l[i])
    /\ l[i].amount > 0 /\ l[j].amount = -l[i].amount
    /\ \A k \in DOMAIN l :
        /\ l[k].id \notin {l[i].id, l[j].id}
        /\ Eligible(l[k]) /\ NameOf(l[k]) = NameOf(l[i])
        => l[k].amount \notin {l[i].amount, -l[i].amount}

\* C14. Matching is independent of refresh boundaries: the duplicate set a
\* dashboard request returns is that of one pass, from an empty pending
\* map, over the whole item list it has stored, and a lone pair whose +X
\* item was in the list before this refresh and whose -X item this refresh
\* added has both identifiers in it.
C14_WholeListMatched ==
    [][\A r \in Reqs :
        req[r].pc = "closing" /\ req'[r].pc = "done"
            /\ req'[r].outcome = "ok"
        => LET u == req[r].user
               stored == heap[cache[u].items]
               before == req[r].had
           IN  /\ cache[u].items = req[r].ref
               /\ req'[r].view[1].items = stored
               /\ req'[r].view[1].dupes = AggPass(AggInit, stored).dupes
               /\ \A i, j \in DOMAIN stored :
                    /\ LonePairIn(stored, i, j)
                    /\ stored[i].id \in before /\ stored[j].id \notin before
                    => {stored[i].id, stored[j].id}
                         \subseteq req'[r].view[1].dupes]_vars

\* C14's case: a refresh that found an entry has returned a list in which
\* an item cached before it and an item it added are flagged as a pair.
C14_Witness ==
    \E r \in Reqs :
        /\ req[r].pc = "done" /\ req[r].kind = "base" /\ req[r].outcome = "ok"
        /\ req[r].cached106
        /\ \E i, j \in DOMAIN req[r].view[1].items :
            LET l == req[r].view[1].items IN
            /\ LonePairIn(l, i, j)
            /\ l[i].id \in req[r].had /\ l[j].id \notin req[r].had
            /\ {l[i].id, l[j].id} \subseteq req[r].view[1].dupes

\* C19 as claimed. Refresh is defined for every reachable entry: a dashboard
\* request that finds an entry at line 106 ends with a ledger, also when
\* the entry's item list is empty.
C19_RefreshDefined ==
    \A r \in Reqs :
        req[r].pc = "done" /\ req[r].kind = "base" /\ req[r].cached106
            => req[r].outcome = "ok" /\ req[r].view # None

(***************************************************************************)
(* Properties of expiry and of failing upstream calls, checked under       *)
(* SpecAuth.                                                               *)
(***************************************************************************)
\* Request r is answered with the redirect of start_auth in this step, the
\* state it carries being the one now in the session.
Redirected(r) ==
    /\ req'[r].pc = "done" /\ req'[r].outcome = "redirect"
    /\ req'[r].state # None
    /\ sess'[req'[r].user].state = req'[r].state
    /\ cache' = cache

\* C15. Auth recovery policy: a guarded handler starts only when the session
\* holds a token whose expiry is not before the current time; otherwise,
\* and when an upstream call of the handler is refused with 401, the answer
\* is the redirect with a state newly stored in the session; any other
\* failure of a call ends the request with that error, the session as it
\* was; and no upstream operation is sent twice in one request (the gathers
\* of lines 102 and 109 send one call per account).
C15_AuthRecovery ==
    /\ [][\A r \in Reqs :
            /\ req[r].pc \in {"idle", "done"} /\ req'[r].pc = "user"
                => LET s == req'[r].sess IN
                   /\ s = sess[req'[r].user]
                   /\ s.token /\ s.expires # None /\ s.expires[1] >= now
            /\ req[r].pc \in {"idle", "done"} /\ req'[r] # req[r]
                    /\ req'[r].kind # "callback"
                    /\ (LET s == sess[req'[r].user] IN
                        ~s.token \/ s.expires = None \/ s.expires[1] < now)
                => Redirected(r) /\ req'[r].calls = [op \in Ops |-> 0]
            /\ req[r].fault = "unauthorised" /\ req'[r] # req[r]
                    /\ req[r].kind # "callback"
                => Redirected(r)
            /\ req[r].fault = "error" /\ req'[r] # req[r]
                => /\ req'[r].pc = "done"
                   /\ req'[r].outcome = "upstream_error"
                   /\ sess' = sess]_vars
    /\ [](\A r \in Reqs : \A op \in Ops :
            req[r].calls[op] <= IF op \in {"balance", "transactions"}
                                THEN Len(req[r].accounts) ELSE 1)

\* C15's case: a dashboard request begun with a token that had not expired
\* was refused with 401 at its last call, that of the transactions, and
\* answered with the redirect.
C15_Witness ==
    \E r \in Reqs :
        /\ req[r].pc = "done" /\ req[r].kind = "base"
        /\ req[r].outcome = "redirect"
        /\ req[r].calls["user"] = 1
        /\ req[r].calls["balance"] = Len(req[r].accounts)
        /\ req[r].calls["transactions"] = Len(req[r].accounts)
        /\ sess[req[r].user].state = req[r].state
        /\ now > 0

\* C20. Failed refresh leaves the cache unchanged: while a dashboard request
\* awaits its upstream calls, and after one of them has failed with 401 or
\* with another error, the user's cache entry, item list included, is what
\* it was when the request started; none is created if there was none.
C20_FailureKeepsCache ==
    \A r \in Reqs :
        /\ req[r].kind = "base"
        /\ \/ req[r].pc \in Ops
           \/ /\ req[r].pc = "done"
              /\ req[r].outcome \in {"redirect", "upstream_error"}
        => EntryOf(req[r].user) = req[r].entry0

\* C20's case: the transactions call of a refresh of an entry that holds an
\* item has failed, an upstream transaction not yet fetched.
C20_Witness ==
    \E r \in Reqs :
        /\ req[r].pc = "done" /\ req[r].kind = "base"
        /\ req[r].outcome = "upstream_error"
        /\ req[r].calls["transactions"] = Len(req[r].accounts)
        /\ req[r].entry0 # None /\ req[r].entry0[1].items # <<>>
        /\ \E x \in upItems[req[r].user] :
              x.id \notin IdsOf(req[r].entry0[1].items)

(***************************************************************************)
(* Properties of two users' requests, checked under SpecIso.               *)
(***************************************************************************)
\* Request r's clear or logout handler runs to its end in this step.
InvalidateCompletes(r) ==
    /\ req[r].pc = "user" /\ req[r].kind \in {"clear", "logout"}
    /\ req'[r].pc = "done" /\ req'[r].outcome = "ok"

\* The entries of the users other than u are the same after the step,
\* item lists included.
OthersUntouched(u) ==
    \A v \in Users \ {u} :
        /\ v \in DOMAIN cache' <=> v \in DOMAIN cache
        /\ v \in DOMAIN cache =>
            /\ cache'[v].accounts = cache[v].accounts
            /\ cache'[v].pots = cache[v].pots
            /\ heap'[cache'[v].items] = heap[cache[v].items]

\* the identifiers of the items of upstream's answer `data`
IdsIn(data) ==
    UNION { { data[i][k].id : k \in DOMAIN data[i] } : i \in DOMAIN data }

\* C11. Invalidate: clear and logout remove the user's cache entry if
\* present and leave the cache as it is if absent (so a second application
\* changes nothing), leave every other user's entry unchanged, and the
\* user's next dashboard request fetches with no since cursor and stores an
\* entry holding everything upstream returned.
C11_Invalidate ==
    [][\A r \in Reqs :
        LET u == req[r].user IN
        /\ InvalidateCompletes(r) =>
            /\ u \notin DOMAIN cache'
            /\ OthersUntouched(u)
            /\ u \notin DOMAIN cache => cache' = cache /\ heap' = heap
        /\ req[r].kind = "base" /\ req[r].pc = "balance"
                /\ req'[r].pc = "transactions" /\ u \notin DOMAIN cache
             => req'[r].since = None /\ heap'[req'[r].ref] = <<>>
        /\ req[r].kind = "base" /\ req[r].pc = "transactions"
                /\ req'[r].pc = "closing" /\ u \notin DOMAIN cache
             => /\ u \in DOMAIN cache'
                /\ req[r].since = None
                /\ { x.id : x \in { heap'[cache'[u].items][k] :
                                      k \in DOMAIN heap'[cache'[u].items] } }
                     = IdsIn(req[r].inbox[1])]_vars

\* C11's case: a clear or logout that found an entry has removed it while
\* the other user's entry, holding an item, is still there.
C11_Witness ==
    \E r \in Reqs :
        /\ req[r].pc = "done" /\ req[r].kind \in {"clear", "logout"}
        /\ req[r].outcome = "ok"
        /\ req[r].entry0 # None /\ req[r].entry0[1].items # <<>>
        /\ req[r].user \notin DOMAIN cache
        /\ \E v \in DOMAIN cache : v # req[r].user /\ heap[cache[v].items] # <<>>

\* The requests whose handler takes this step.
Stepping == { r \in Reqs : req'[r] # req[r] }

\* C16. User isolation under concurrency: in any interleaving of the
\* requests of different users, a user's entry (its presence, accounts,
\* pots and item list) changes only in a step of a request of that user,
\* a request holds no other user's item list, and every cached or returned
\* item is a transaction of the user it is cached or returned for.
C16_UserIsolation ==
    /\ [][\A v \in Users :
            (\A r \in Stepping : req[r].user # v /\ req'[r].user # v)
                => OthersUntouched(CHOOSE u \in Users : u # v)]_vars
    /\ [](\A r \in Reqs : \A v \in DOMAIN cache :
            /\ { heap[cache[v].items][k] : k \in DOMAIN heap[cache[v].items] }
                 \subseteq upItems[v]
            /\ req[r].pc \in Ops \cup {"closing"} /\ req[r].user # v
                 => req[r].ref # cache[v].items
            /\ req[r].pc = "done" /\ req[r].view # None
                 => { req[r].view[1].items[k] : k \in DOMAIN req[r].view[1].items }
                      \subseteq upItems[req[r].user])

\* C16's case: both users have an entry holding an item, and both are in
\* the middle of a refresh, upstream's answers waiting.
C16_Witness ==
    /\ \A u \in Users : u \in DOMAIN cache /\ heap[cache[u].items] # <<>>
    /\ \A r \in Reqs :
        /\ req[r].pc = "transactions" /\ req[r].inbox # None
        /\ req[r].cached106
    /\ req["r1"].user # req["r2"].user

(***************************************************************************)
(* Properties of two requests of one user, checked under SpecRace, where   *)
(* every created string has the form without a fraction.                   *)
(***************************************************************************)
\* The identifiers in user u's cached list before the step that are not in
\* it after the step, the entry being there before and after.
Vanished(u) ==
    IF u \in DOMAIN cache /\ u \in DOMAIN cache'
    THEN IdsOf(heap[cache[u].items]) \ IdsOf(heap'[cache'[u].items])
    ELSE {}

\* C17. Lost update is reachable: an item stored in the user's entry leaves
\* the cached sequence, the entry staying, only in the step in which a
\* dashboard request stores a list that is not the list object the entry
\* holds, having read its own before another cycle stored the entry; the
\* items it drops are those of the overwritten list that its own snapshot
\* lacks.  That step is reachable (C17_Witness).
C17_LostUpdate ==
    [][\A u \in Users :
        Vanished(u) # {} =>
            \E r \in Reqs :
                /\ req[r].user = u /\ req[r].kind = "base"
                /\ req[r].pc = "transactions" /\ req'[r].pc = "closing"
                /\ req[r].ref # cache[u].items
                /\ cache'[u].items = req[r].ref
                /\ req'[r].lost = Vanished(u)]_vars

\* C17's case: two refresh cycles of the user overlapped, and the one that
\* finished last has lost an item the other had stored.
C17_Witness ==
    \E r \in Reqs, q \in Reqs :
        /\ r # q /\ req[r].user = req[q].user
        /\ req[r].pc = "done" /\ req[r].kind = "base" /\ req[r].outcome = "ok"
        /\ req[q].pc = "done" /\ req[q].kind = "base" /\ req[q].outcome = "ok"
        /\ req[r].lost # {}
        /\ req[r].lost \subseteq IdsOf(req[q].view[1].items)
        /\ req[r].lost \cap IdsOf(CachedItems(req[r].user)) = {}

\* C18 as claimed. No duplicate identifiers under interleaving: in every
\* state reachable by interleaving dashboard requests of a user, no
\* identifier occurs twice in the user's cached item sequence.
C18_NoDuplicateIds ==
    \A u \in DOMAIN cache :
        \A i, j \in DOMAIN CachedItems(u) :
            i # j => CachedItems(u)[i].id # CachedItems(u)[j].id

====
